---- MODULE Spec2Model ----
(***************************************************************************)
(* Developer Assistant MCP server: three tools (get_calendar_events,       *)
(* query_notion_pages, get_github_repo_info) registered on a FastMCP       *)
(* server, each bound to one method of a service adapter.                  *)
(*                                                                         *)
(* JavaScript values are modelled as follows.  A scalar is a string:       *)
(* "undefined", "null", a quoted text such as "'abc'", or digits such as   *)
(* "3".  An object is a sequence of <<key, scalar>> pairs in property      *)
(* order; an array is a sequence of objects.  A tool-call parameter record *)
(* is a function from the field names present to scalars.                  *)
(***************************************************************************)
EXTENDS Integers, Sequences, FiniteSets, TLC

\* Number of tool-call requests the host sends in one run.
MaxRequests == 2

VARIABLES
    env,        \* process.env: credential name -> scalar ("undefined" when unset)
    adapters,   \* service name -> [constructed, credential]
    tools,      \* sequence of tool names registered with server.addTool
    phase,      \* "uninitialized", "registering", "listening", "shutdown"
    reqs,       \* sequence of tool-call requests read so far, in arrival order
    now,        \* the clock, read by new Date()
    calendar,   \* the upstream primary calendar: event id -> start time
    calCall,    \* the last direct call of GoogleCalendarService.getEvents
    fileCall    \* the last direct call of GitHubService.getFileContent

vars == <<env, adapters, tools, phase, reqs, now, calendar, calCall, fileCall>>

Undefined == "undefined"
Null == "null"

StringScalars == {"'abc'", "'secret'", "'kleptotooliac'", "'a tool thief'", "'TypeScript'"}
NumberScalars == {"0", "1", "3", "7", "10"}

TypeOf(v) ==
    IF v \in StringScalars THEN "string"
    ELSE IF v \in NumberScalars THEN "number"
    ELSE IF v = Null THEN "null"
    ELSE "undefined"

(***************************************************************************)
(* Startup: src/src/index.ts 7-67                                          *)
(***************************************************************************)
Services == <<"calendar", "notion", "github">>

CredentialOf(svc) ==
    CASE svc = "calendar" -> "GOOGLE_SERVICE_ACCOUNT_KEY"
      [] svc = "notion" -> "NOTION_TOKEN"
      [] svc = "github" -> "GITHUB_TOKEN"

Credentials == {CredentialOf(Services[i]) : i \in 1..Len(Services)}

ToolNames == <<"get_calendar_events", "query_notion_pages", "get_github_repo_info">>

\* The constructors store a client built from the credential and check nothing.
NewService(credential) == [constructed |-> TRUE, credential |-> credential]

NotConstructed == [constructed |-> FALSE, credential |-> Undefined]

Construct(i) ==
    /\ phase = "uninitialized"
    /\ i \in 1..Len(Services)
    /\ ~adapters[Services[i]].constructed
    /\ \A j \in 1..(i - 1) : adapters[Services[j]].constructed
    /\ adapters' = [adapters EXCEPT ![Services[i]] = NewService(env[CredentialOf(Services[i])])]
    /\ UNCHANGED <<env, tools, phase, reqs, now, calendar, calCall, fileCall>>

AddTool(i) ==
    /\ phase \in {"uninitialized", "registering"}
    /\ \A j \in 1..Len(Services) : adapters[Services[j]].constructed
    /\ i = Len(tools) + 1
    /\ i \in 1..Len(ToolNames)
    /\ tools' = Append(tools, ToolNames[i])
    /\ phase' = "registering"
    /\ UNCHANGED <<env, adapters, reqs, now, calendar, calCall, fileCall>>

Start ==
    /\ phase = "registering"
    /\ Len(tools) = Len(ToolNames)
    /\ phase' = "listening"
    /\ UNCHANGED <<env, adapters, tools, reqs, now, calendar, calCall, fileCall>>

(***************************************************************************)
(* Parameter schemas and their validation                                  *)
(***************************************************************************)
\* z.string() and z.number() are required; .default(d) makes a field optional.
ZString == [type |-> "string", default |-> Undefined]
ZNumber == [type |-> "number", default |-> Undefined]
ZDefault(field, d) == [field EXCEPT !.default = d]

\* z.object(shape).strict(): unknown keys are errors.
ZObject_Strict(shape) == [unknownKeys |-> "strict", shape |-> shape]

\* z.object(shape): unknown keys are stripped unless .strict() is asked for.
ZObject(shape) == [unknownKeys |-> "strip", shape |-> shape]

\* Variant: another default in the schema.
DefaultMaxResults_Five == "5"

DefaultMaxResults == "10"

\* Variant: repo declared with a default, so no longer required.
ToolParameters_DefaultRepo(tool) ==
    CASE tool = "get_calendar_events" ->
            ZObject([f \in {"maxResults"} |-> ZDefault(ZNumber, DefaultMaxResults)])
      [] tool = "query_notion_pages" ->
            ZObject([f \in {"databaseId"} |-> ZString])
      [] tool = "get_github_repo_info" ->
            ZObject([f \in {"owner", "repo"} |->
                        IF f = "repo" THEN ZDefault(ZString, "'abc'") ELSE ZString])

ToolParameters(tool) ==
    CASE tool = "get_calendar_events" ->
            ZObject([f \in {"maxResults"} |-> ZDefault(ZNumber, DefaultMaxResults)])
      [] tool = "query_notion_pages" ->
            ZObject([f \in {"databaseId"} |-> ZString])
      [] tool = "get_github_repo_info" ->
            ZObject([f \in {"owner", "repo"} |-> ZString])

FieldInput(input, f) == IF f \in DOMAIN input THEN input[f] ELSE Undefined

FieldParse(field, v) ==
    LET w == IF v = Undefined /\ field.default # Undefined THEN field.default ELSE v
    IN  [ok |-> TypeOf(w) = field.type, value |-> w]

ZodParse(schema, input) ==
    LET declared == DOMAIN schema.shape
        unknown == DOMAIN input \ declared
        kept == IF schema.unknownKeys = "passthrough" THEN unknown ELSE {}
        fieldsOk == \A f \in declared :
                        FieldParse(schema.shape[f], FieldInput(input, f)).ok
        keysOk == schema.unknownKeys # "strict" \/ unknown = {}
    IN  IF fieldsOk /\ keysOk
        THEN [success |-> TRUE,
              data |-> [f \in declared \cup kept |->
                          IF f \in declared
                          THEN FieldParse(schema.shape[f], FieldInput(input, f)).value
                          ELSE input[f]]]
        ELSE [success |-> FALSE, data |-> <<>>]

(***************************************************************************)
(* Service adapters: the upstream request each method sends                *)
(***************************************************************************)
Digits == <<"0", "1", "2", "3", "4", "5", "6", "7", "8", "9", "10">>

\* Number -> its scalar, and back (e.g. new Date().toISOString() keeps order).
ToScalar(n) == Digits[n + 1]
NumberValue(s) == (CHOOSE i \in 1..Len(Digits) : Digits[i] = s) - 1

\* Variant: getEvents without orderBy.
GetEventsRequest_NoOrder(maxResults, clock) ==
    [api |-> "calendar.events.list",
     params |-> [calendarId |-> "'primary'",
                 timeMin |-> ToScalar(clock),
                 maxResults |-> IF maxResults = Undefined THEN "10" ELSE maxResults,
                 singleEvents |-> "true"]]

\* GoogleCalendarService.getEvents(maxResults = 10)
GetEventsRequest(maxResults, clock) ==
    [api |-> "calendar.events.list",
     params |-> [calendarId |-> "'primary'",
                 timeMin |-> ToScalar(clock),
                 maxResults |-> IF maxResults = Undefined THEN "10" ELSE maxResults,
                 singleEvents |-> "true",
                 orderBy |-> "'startTime'"]]

\* NotionService.queryDatabase(databaseId, filter = {}): {} is truthy, so the
\* spread always adds the filter key.
QueryDatabaseRequest(databaseId, filter) ==
    LET f == IF filter = Undefined THEN "{}" ELSE filter
    IN  [api |-> "notion.databases.query",
         params |-> IF f \in {Null, "''", "0", "false"}
                    THEN [database_id |-> databaseId]
                    ELSE [database_id |-> databaseId, filter |-> f]]

\* Property read: obj.key, undefined when the object has no such key.
Get(obj, key) ==
    IF \E i \in 1..Len(obj) : obj[i][1] = key
    THEN obj[CHOOSE i \in 1..Len(obj) : obj[i][1] = key][2]
    ELSE Undefined

\* NotionService.queryDatabase returns response.results: the results of the one
\* response it awaited, whatever has_more and next_cursor say.
QueryDatabaseResult(response) == Get(response, "results")

\* GitHubService.getRepository(owner, repo)
GetRepositoryRequest(owner, repo) ==
    [api |-> "github.repos.get", params |-> [owner |-> owner, repo |-> repo]]

(***************************************************************************)
(* Tool handlers (the execute closures)                                    *)
(***************************************************************************)
\* Variant: the notion handler passes an explicit empty filter.
HandlerCall_WithFilter(tool, parsed) ==
    CASE tool = "get_calendar_events" ->
            [method |-> "calendar.getEvents", args |-> <<parsed["maxResults"]>>]
      [] tool = "query_notion_pages" ->
            [method |-> "notion.queryDatabase", args |-> <<parsed["databaseId"], "{}">>]
      [] tool = "get_github_repo_info" ->
            [method |-> "github.getRepository",
             args |-> <<parsed["owner"], parsed["repo"]>>]

\* The adapter method a handler awaits, with the arguments it passes.
HandlerCall(tool, parsed) ==
    CASE tool = "get_calendar_events" ->
            [method |-> "calendar.getEvents", args |-> <<parsed["maxResults"]>>]
      [] tool = "query_notion_pages" ->
            [method |-> "notion.queryDatabase", args |-> <<parsed["databaseId"]>>]
      [] tool = "get_github_repo_info" ->
            [method |-> "github.getRepository",
             args |-> <<parsed["owner"], parsed["repo"]>>]

Arg(call, i) == IF i <= Len(call.args) THEN call.args[i] ELSE Undefined

\* The upstream request the called adapter method sends.
AdapterRequest(call, clock) ==
    CASE call.method = "calendar.getEvents" -> GetEventsRequest(Arg(call, 1), clock)
      [] call.method = "notion.queryDatabase" ->
            QueryDatabaseRequest(Arg(call, 1), Arg(call, 2))
      [] call.method = "github.getRepository" ->
            GetRepositoryRequest(Arg(call, 1), Arg(call, 2))

\* Variant: a request already answered successfully is served from a cache.
SendUpstream_Cached(sent, request, answered) ==
    IF request \in answered THEN sent ELSE Append(sent, request)

\* Every adapter method awaits its client once: one upstream request is added
\* to those this call has sent, whatever earlier calls were answered.
SendUpstream(sent, request, answered) == Append(sent, request)

\* JSON.stringify of an object: properties whose value is undefined are left out.
IsDefined(pair) == pair[2] # Undefined
JsonStringifyObject(obj) == [json |-> "object", body |-> SelectSeq(obj, IsDefined)]

\* JSON.stringify of an array of objects.
JsonStringifyArray(arr) ==
    [json |-> "array",
     body |-> [i \in 1..Len(arr) |-> JsonStringifyObject(arr[i])]]

\* What execute returns once the awaited adapter call has delivered data.
HandlerResult(tool, data) ==
    CASE tool = "get_calendar_events" -> JsonStringifyArray(data)
      [] tool = "query_notion_pages" -> JsonStringifyArray(QueryDatabaseResult(data))
      [] tool = "get_github_repo_info" ->
            JsonStringifyObject(<< <<"name", Get(data, "name")>>,
                                   <<"description", Get(data, "description")>>,
                                   <<"stars", Get(data, "stargazers_count")>>,
                                   <<"language", Get(data, "language")>> >>)

NoText == [json |-> "none", body |-> <<>>]

ValidationError == [kind |-> "validation_error", text |-> NoText, message |-> "invalid params"]

\* Variant: the handler catches the failure and returns an empty list.
HandlerSettles_Swallow(tool, reply) ==
    [kind |-> "result",
     text |-> IF reply.ok THEN HandlerResult(tool, reply.data) ELSE JsonStringifyArray(<<>>),
     message |-> reply.error]

\* execute has no try/catch: a rejected adapter call rejects the handler with the
\* same error, which the runtime reports for this request.
HandlerSettles(tool, reply) ==
    IF reply.ok
    THEN [kind |-> "result", text |-> HandlerResult(tool, reply.data), message |-> ""]
    ELSE [kind |-> "execution_error", text |-> NoText, message |-> reply.error]

(***************************************************************************)
(* Upstream services: what an awaited client call can deliver              *)
(***************************************************************************)
Success(data) == [ok |-> TRUE, data |-> data, error |-> ""]
Failure(message) == [ok |-> FALSE, data |-> <<>>, error |-> message]
NoReply == [ok |-> FALSE, data |-> <<>>, error |-> "pending"]

EventRecord == << <<"id", "'abc'">>, <<"summary", "'abc'">> >>
PageRecord == << <<"object", "'abc'">>, <<"id", "'abc'">> >>

\* Repository records as the upstream may send them: with more fields than
\* the tool projects, with null values, with a projected field left out.
RepoFull ==
    << <<"id", "7">>, <<"name", "'kleptotooliac'">>, <<"full_name", "'abc'">>,
       <<"description", "'a tool thief'">>, <<"stargazers_count", "3">>,
       <<"language", "'TypeScript'">>, <<"forks_count", "1">> >>
RepoNulls ==
    << <<"name", "'kleptotooliac'">>, <<"description", Null>>,
       <<"stargazers_count", "3">>, <<"language", Null>> >>
RepoNoLanguage ==
    << <<"id", "7">>, <<"name", "'kleptotooliac'">>, <<"description", Null>>,
       <<"stargazers_count", "3">> >>

\* One response of databases.query: a page of results, and whether more follow.
QueryResponse(results, has_more) ==
    << <<"object", "'list'">>, <<"results", results>>, <<"has_more", has_more>>,
       <<"next_cursor", IF has_more = "true" THEN "'abc'" ELSE Null>> >>

Replies(tool) ==
    CASE tool = "get_calendar_events" ->
            {Success(<<EventRecord, EventRecord>>), Failure("Invalid Credentials")}
      [] tool = "query_notion_pages" ->
            {Success(QueryResponse(<<>>, "false")),
             Success(QueryResponse(<<PageRecord>>, "false")),
             Success(QueryResponse(<<PageRecord>>, "true")),
             Failure("object_not_found")}
      [] tool = "get_github_repo_info" ->
            {Success(RepoFull), Success(RepoNulls), Success(RepoNoLanguage),
             Failure("Not Found")}

(***************************************************************************)
(* Server runtime: one tool-call request from arrival to response          *)
(***************************************************************************)
Range(seq) == {seq[i] : i \in 1..Len(seq)}

\* Parameter records a host may send: any subset of the declared fields, each
\* with a value of the declared type, alone or with one undeclared field; all
\* the declared fields with one of them of the wrong type; and a number field
\* given as zero.
UnknownField == "verbose"
SampleValue(type) == IF type = "number" THEN "3" ELSE "'abc'"
WrongValue(type) == IF type = "number" THEN "'abc'" ELSE "3"
ZeroValue == "0"
ArgInputs(tool) ==
    LET shape == ToolParameters(tool).shape
        typed(S) == [f \in S |->
                        IF f \in DOMAIN shape THEN SampleValue(shape[f].type)
                        ELSE "'abc'"]
    IN  {typed(S) : S \in SUBSET (DOMAIN shape \cup {UnknownField})}
        \cup {[typed(DOMAIN shape) EXCEPT ![f] = WrongValue(shape[f].type)] :
                f \in DOMAIN shape}
        \cup {[typed(DOMAIN shape) EXCEPT ![f] = ZeroValue] :
                f \in {g \in DOMAIN shape : shape[g].type = "number"}}

ExecutionErrors(table) ==
    Cardinality({i \in 1..Len(table) :
        \E k \in 1..Len(table[i].responses) :
            table[i].responses[k].kind = "execution_error"})

\* Variant: the handler is entered without validation.
NewRequest_Unvalidated(tool, args, table) ==
    [tool |-> tool, args |-> args, status |-> "executing", parsed |-> args,
     calls |-> <<>>, upstream |-> <<>>, reply |-> NoReply, responses |-> <<>>,
     errorsBefore |-> ExecutionErrors(table)]

NewRequest(tool, args, table) ==
    [tool |-> tool, args |-> args, status |-> "validating", parsed |-> <<>>,
     calls |-> <<>>, upstream |-> <<>>, reply |-> NoReply, responses |-> <<>>,
     errorsBefore |-> ExecutionErrors(table)]

\* A tools/call message arrives on stdin while the process listens.  Nothing
\* in the source holds a message back while an earlier handler is suspended.
ReadRequest(tool, args) ==
    /\ phase = "listening"
    /\ Len(reqs) < MaxRequests
    /\ tool \in Range(tools)
    /\ reqs' = Append(reqs, NewRequest(tool, args, reqs))
    /\ UNCHANGED <<env, adapters, tools, phase, now, calendar, calCall, fileCall>>

\* The request after validation: rejected, or its handler run up to the await
\* of the adapter call.
Validated(r, table, clock) ==
    LET p == ZodParse(ToolParameters(r.tool), r.args)
        call == HandlerCall(r.tool, p.data)
        answered == UNION {Range(table[i].upstream) :
                            i \in {j \in 1..Len(table) : table[j].reply.ok}}
    IN  IF p.success
        THEN [r EXCEPT !.status = "executing",
                       !.parsed = p.data,
                       !.calls = Append(@, call),
                       !.upstream = SendUpstream(@, AdapterRequest(call, clock), answered)]
        ELSE [r EXCEPT !.status = "responded",
                       !.responses = Append(@, ValidationError)]

Validate(id) ==
    /\ phase = "listening"
    /\ id \in 1..Len(reqs)
    /\ reqs[id].status = "validating"
    /\ reqs' = [reqs EXCEPT ![id] = Validated(reqs[id], reqs, now)]
    /\ UNCHANGED <<env, adapters, tools, phase, now, calendar, calCall, fileCall>>

\* The awaited upstream call settles; the handler finishes and the runtime
\* writes the response.  The process stays up either way.
Settled(r, reply) ==
    [r EXCEPT !.status = "responded",
              !.reply = reply,
              !.responses = Append(@, HandlerSettles(r.tool, reply))]

\* Variant: a rejected handler takes the process down.
PhaseAfterSettle_Crash(reply) == IF reply.ok THEN "listening" ELSE "shutdown"

PhaseAfterSettle(reply) == "listening"

UpstreamReply(id, reply) ==
    /\ phase = "listening"
    /\ id \in 1..Len(reqs)
    /\ reqs[id].status = "executing"
    /\ reply \in Replies(reqs[id].tool)
    /\ reqs' = [reqs EXCEPT ![id] = Settled(reqs[id], reply)]
    /\ phase' = PhaseAfterSettle(reply)
    /\ UNCHANGED <<env, adapters, tools, now, calendar, calCall, fileCall>>

\* stdin closes or the process is signalled.
Close ==
    /\ phase = "listening"
    /\ phase' = "shutdown"
    /\ UNCHANGED <<env, adapters, tools, reqs, now, calendar, calCall, fileCall>>

(***************************************************************************)
(* GoogleCalendarService.getEvents against the upstream calendar           *)
(***************************************************************************)
\* Events in the upstream calendar, latest start time, largest maxResults.
NumEvents == 3
MaxTime == 2
MaxN == 3

EventIds == 1..NumEvents

IsSorted(items) ==
    \A i \in 1..Len(items) : \A j \in i..Len(items) : items[i].start <= items[j].start

Prefix(seq, n) == IF Len(seq) <= n THEN seq ELSE SubSeq(seq, 1, n)

\* Every listing of the events `ids` of `store`, each once.
Listings(store, ids) ==
    {[i \in 1..Cardinality(ids) |-> [id |-> f[i], start |-> store[f[i]]]] :
        f \in {g \in [1..Cardinality(ids) -> ids] :
                  \A a, b \in 1..Cardinality(ids) : a # b => g[a] # g[b]}}

\* The upstream events.list: events from timeMin on, in start-time order when
\* orderBy = startTime is asked for (any order otherwise), at most maxResults
\* of them; or the request fails.
EventsList(store, params) ==
    LET upcoming == {e \in DOMAIN store : store[e] >= NumberValue(params.timeMin)}
        ordered == "orderBy" \in DOMAIN params /\ params.orderBy = "'startTime'"
        limit == IF "maxResults" \in DOMAIN params
                 THEN NumberValue(params.maxResults) ELSE Cardinality(upcoming)
    IN  {Success(Prefix(l, limit)) :
            l \in {m \in Listings(store, upcoming) : ordered => IsSorted(m)}}
        \cup {Failure("Invalid Credentials")}

\* getEvents returns response.data.items as received (or the await throws).
GetEventsResult(response) ==
    [raised |-> ~response.ok, items |-> response.data]

NoCalCall ==
    [called |-> FALSE, maxResults |-> Undefined, at |-> 0,
     request |-> <<>>, response |-> NoReply, raised |-> FALSE, items |-> <<>>]

CalGetEvents(maxResults) ==
    LET request == GetEventsRequest(maxResults, now)
    IN  \E response \in EventsList(calendar, request.params) :
            /\ calCall' = [called |-> TRUE, maxResults |-> maxResults, at |-> now,
                           request |-> request, response |-> response,
                           raised |-> GetEventsResult(response).raised,
                           items |-> GetEventsResult(response).items]
            /\ UNCHANGED <<env, adapters, tools, phase, reqs, now, calendar, fileCall>>

Tick ==
    /\ now < MaxTime
    /\ now' = now + 1
    /\ UNCHANGED <<env, adapters, tools, phase, reqs, calendar, calCall, fileCall>>

(***************************************************************************)
(* GitHubService.getFileContent against the upstream contents API          *)
(***************************************************************************)
\* Longest file, in bytes, among the upstream files.
MaxFileLen == 4

Base64Alphabet ==
    <<"A", "B", "C", "D", "E", "F", "G", "H", "I", "J", "K", "L", "M", "N", "O", "P",
      "Q", "R", "S", "T", "U", "V", "W", "X", "Y", "Z", "a", "b", "c", "d", "e", "f",
      "g", "h", "i", "j", "k", "l", "m", "n", "o", "p", "q", "r", "s", "t", "u", "v",
      "w", "x", "y", "z", "0", "1", "2", "3", "4", "5", "6", "7", "8", "9", "+", "/">>

Base64Char(sextet) == Base64Alphabet[sextet + 1]
Sextet(c) == (CHOOSE i \in 1..Len(Base64Alphabet) : Base64Alphabet[i] = c) - 1
IsBase64Char(c) == \E i \in 1..Len(Base64Alphabet) : Base64Alphabet[i] = c

\* The upstream's encoding of a file's bytes: RFC 4648 with = padding.
RECURSIVE Base64Encode(_)
Base64Encode(bytes) ==
    IF Len(bytes) = 0 THEN <<>>
    ELSE IF Len(bytes) = 1
    THEN <<Base64Char(bytes[1] \div 4), Base64Char((bytes[1] % 4) * 16), "=", "=">>
    ELSE IF Len(bytes) = 2
    THEN <<Base64Char(bytes[1] \div 4),
           Base64Char((bytes[1] % 4) * 16 + bytes[2] \div 16),
           Base64Char((bytes[2] % 16) * 4), "=">>
    ELSE <<Base64Char(bytes[1] \div 4),
           Base64Char((bytes[1] % 4) * 16 + bytes[2] \div 16),
           Base64Char((bytes[2] % 16) * 4 + bytes[3] \div 64),
           Base64Char(bytes[3] % 64)>>
         \o Base64Encode(SubSeq(bytes, 4, Len(bytes)))

RECURSIVE SextetsToBytes(_)
SextetsToBytes(s) ==
    IF Len(s) < 2 THEN <<>>
    ELSE IF Len(s) = 2 THEN <<s[1] * 4 + s[2] \div 16>>
    ELSE IF Len(s) = 3
    THEN <<s[1] * 4 + s[2] \div 16, (s[2] % 16) * 16 + s[3] \div 4>>
    ELSE <<s[1] * 4 + s[2] \div 16, (s[2] % 16) * 16 + s[3] \div 4,
           (s[3] % 4) * 64 + s[4]>>
         \o SextetsToBytes(SubSeq(s, 5, Len(s)))

\* Buffer.from(content, "base64"): characters outside the alphabet (the line
\* breaks the upstream inserts) are skipped and decoding ends at the padding.
Base64Decode(content) ==
    LET pads == {i \in 1..Len(content) : content[i] = "="}
        stop == IF pads = {} THEN Len(content) + 1
                ELSE CHOOSE i \in pads : \A j \in pads : i <= j
        chars == SelectSeq(SubSeq(content, 1, stop - 1), IsBase64Char)
    IN  SextetsToBytes([i \in 1..Len(chars) |-> Sextet(chars[i])])

\* .toString("utf-8"): a text as its code points; a byte that is no ASCII
\* character on its own decodes to U+FFFD.
Utf8ToString(bytes) ==
    [i \in 1..Len(bytes) |-> IF bytes[i] < 128 THEN bytes[i] ELSE 65533]

GetContentRequest(owner, repo, path) ==
    [api |-> "github.repos.getContent",
     params |-> [owner |-> owner, repo |-> repo, path |-> path]]

\* "content" in data, for an array (a directory listing) or an object.
HasContent(data) == data.kind = "object" /\ "content" \in DOMAIN data.props

\* data.encoding, undefined when absent.
Encoding(data) ==
    IF data.kind = "object" /\ "encoding" \in DOMAIN data.props
    THEN data.props.encoding ELSE Undefined

\* Variant: the encoding is not looked at.
GetFileContentResult_AnyEncoding(data) ==
    IF HasContent(data)
    THEN [isNull |-> FALSE, text |-> Utf8ToString(Base64Decode(data.props.content))]
    ELSE [isNull |-> TRUE, text |-> <<>>]

\* What getFileContent returns for the data of the upstream response.
GetFileContentResult(data) ==
    IF HasContent(data) /\ Encoding(data) = "base64"
    THEN [isNull |-> FALSE, text |-> Utf8ToString(Base64Decode(data.props.content))]
    ELSE [isNull |-> TRUE, text |-> <<>>]

\* Files upstream: every byte sequence up to MaxFileLen over a few ASCII bytes.
FileBytes == {10, 65, 122}
Files == UNION {[1..n -> FileBytes] : n \in 0..MaxFileLen}

\* Upstream contents responses: a file (base64 content, then a line break), the
\* same content under another encoding label, a file too large to inline, a
\* submodule (no content), a directory listing, or a failure.
ContentResponses ==
    {Success([kind |-> "object",
              props |-> [type |-> "file", encoding |-> e,
                         content |-> Base64Encode(f) \o <<"\n">>]]) :
        f \in Files, e \in {"base64", "utf-8"}}
    \cup {Success([kind |-> "object",
                   props |-> [type |-> "file", encoding |-> "none", content |-> <<>>]]),
          Success([kind |-> "object", props |-> [type |-> "file", content |-> <<"Q">>]]),
          Success([kind |-> "object", props |-> [type |-> "submodule"]]),
          Success([kind |-> "object", props |-> [type |-> "symlink", encoding |-> "base64"]]),
          Failure("Not Found")}
    \cup {Success([kind |-> "array", entries |-> n]) : n \in 0..2}

\* Before the call: `response` is what the upstream holds for the path asked.
NoFileCall(response) ==
    [called |-> FALSE, request |-> <<>>, response |-> response, raised |-> FALSE,
     result |-> [isNull |-> TRUE, text |-> <<>>]]

GitGetFileContent(owner, repo, path) ==
    /\ fileCall.response \in ContentResponses
    /\ fileCall' = [called |-> TRUE,
                    request |-> GetContentRequest(owner, repo, path),
                    response |-> fileCall.response,
                    raised |-> ~fileCall.response.ok,
                    result |-> IF fileCall.response.ok
                               THEN GetFileContentResult(fileCall.response.data)
                               ELSE [isNull |-> TRUE, text |-> <<>>]]
    /\ UNCHANGED <<env, adapters, tools, phase, reqs, now, calendar, calCall>>

(***************************************************************************)
(* Specification                                                           *)
(***************************************************************************)
InitServer ==
    /\ adapters = [s \in Range(Services) |-> NotConstructed]
    /\ tools = <<>>
    /\ phase = "uninitialized"
    /\ reqs = <<>>
    /\ now = 0
    /\ calendar = [e \in EventIds |-> 0]
    /\ calCall = NoCalCall
    /\ fileCall = NoFileCall(NoReply)

\* The server started with its three credentials set.
Init ==
    /\ env = [c \in Credentials |-> "'secret'"]
    /\ InitServer

\* The server started with any of the credentials set or unset.
InitAnyEnv ==
    /\ env \in [Credentials -> {Undefined, "'secret'"}]
    /\ InitServer

\* The calendar adapter, constructed, called against any small calendar.
InitCalendar ==
    /\ env = [c \in Credentials |-> "'secret'"]
    /\ adapters = [s \in Range(Services) |->
                     IF s = "calendar" THEN NewService("'secret'") ELSE NotConstructed]
    /\ tools = <<>>
    /\ phase = "uninitialized"
    /\ reqs = <<>>
    /\ now = 0
    /\ calendar \in [EventIds -> 0..MaxTime]
    /\ calCall = NoCalCall
    /\ fileCall = NoFileCall(NoReply)

NextCalendar ==
    \/ \E n \in 1..MaxN : CalGetEvents(ToScalar(n))
    \/ CalGetEvents(Undefined)
    \/ Tick

SpecCalendar == InitCalendar /\ [][NextCalendar]_vars

\* The repository-host adapter, constructed, asked for a file's content.
InitGitHubContent ==
    /\ env = [c \in Credentials |-> "'secret'"]
    /\ adapters = [s \in Range(Services) |->
                     IF s = "github" THEN NewService("'secret'") ELSE NotConstructed]
    /\ tools = <<>>
    /\ phase = "uninitialized"
    /\ reqs = <<>>
    /\ now = 0
    /\ calendar = [e \in EventIds |-> 0]
    /\ calCall = NoCalCall
    /\ \E response \in ContentResponses : fileCall = NoFileCall(response)

NextGitHubContent ==
    \E path \in {"'src'", "'README.md'"} : GitGetFileContent("'abc'", "'kleptotooliac'", path)

SpecGitHubContent == InitGitHubContent /\ [][NextGitHubContent]_vars

Next ==
    \/ \E i \in 1..Len(Services) : Construct(i)
    \/ \E i \in 1..Len(ToolNames) : AddTool(i)
    \/ Start
    \/ \E i \in 1..Len(ToolNames) : \E args \in ArgInputs(ToolNames[i]) :
            ReadRequest(ToolNames[i], args)
    \/ \E id \in 1..MaxRequests : Validate(id)
    \/ \E id \in 1..MaxRequests : \E i \in 1..Len(ToolNames) :
            \E reply \in Replies(ToolNames[i]) : UpstreamReply(id, reply)
    \/ Close

Spec == Init /\ [][Next]_vars

\* Startup with any environment, then the server as in Spec.
SpecAnyEnv == InitAnyEnv /\ [][Next]_vars

(***************************************************************************)
(* Properties                                                              *)
(***************************************************************************)
Ids == 1..Len(reqs)

\* The fields the schemas declare, and those among them they require.
DeclaredOf(tool) ==
    CASE tool = "get_calendar_events" -> {"maxResults"}
      [] tool = "query_notion_pages" -> {"databaseId"}
      [] tool = "get_github_repo_info" -> {"owner", "repo"}

RequiredOf(tool) ==
    CASE tool = "get_calendar_events" -> {}
      [] tool = "query_notion_pages" -> {"databaseId"}
      [] tool = "get_github_repo_info" -> {"owner", "repo"}

TypeOfField(f) == IF f = "maxResults" THEN "number" ELSE "string"

Rejected(r) == r.status = "responded" /\ r.responses = <<ValidationError>>

\* C1: a tool call that omits a field its schema requires (databaseId; owner;
\* repo) is rejected in validation: it never leaves validation except with a
\* validation error, and no adapter method or upstream call is made for it.
\* Whenever a handler has called an adapter, validation has accepted the
\* parameters before.
C1_MissingRequiredRejected ==
    \A id \in Ids :
        LET r == reqs[id]
        IN  /\ (RequiredOf(r.tool) \ DOMAIN r.args # {}) =>
                /\ Len(r.calls) = 0
                /\ Len(r.upstream) = 0
                /\ r.status = "validating" \/ Rejected(r)
            /\ Len(r.calls) > 0 =>
                /\ RequiredOf(r.tool) \subseteq DOMAIN r.parsed
                /\ \A f \in RequiredOf(r.tool) : r.parsed[f] = r.args[f]

C1_Witness ==
    \E id \in Ids :
        /\ reqs[id].tool = "get_github_repo_info"
        /\ DOMAIN reqs[id].args = {"owner"}
        /\ Rejected(reqs[id])
        /\ Len(reqs[id].calls) = 0

\* The declared fields of a parameter record are acceptable: each is present
\* with the declared type, or absent and defaulted.
DeclaredFieldsOk(r) ==
    \A f \in DeclaredOf(r.tool) :
        IF f \in DOMAIN r.args
        THEN TypeOf(r.args[f]) = TypeOfField(f)
        ELSE f \notin RequiredOf(r.tool)

HasUnknownField(r) == DOMAIN r.args \ DeclaredOf(r.tool) # {}

\* C2 as stated: a call whose parameter record has a field the schema does not
\* declare is rejected as a validation failure and its handler is not run.
C2_UnknownFieldRejected ==
    \A id \in Ids :
        (HasUnknownField(reqs[id]) /\ reqs[id].status # "validating") =>
            Rejected(reqs[id]) /\ Len(reqs[id].calls) = 0

\* C2 amended: a call is rejected exactly when a required field is missing or
\* a declared field has the wrong type.  An undeclared field is no ground for
\* rejection: it is dropped, and the handler runs with the declared fields
\* only.
C2_UnknownFieldStripped ==
    \A id \in Ids :
        LET r == reqs[id]
        IN  r.status # "validating" =>
                /\ Rejected(r) <=> ~DeclaredFieldsOk(r)
                /\ Rejected(r) => Len(r.calls) = 0
                /\ ~Rejected(r) =>
                    /\ DOMAIN r.parsed = DeclaredOf(r.tool)
                    /\ Len(r.calls) = 1

C2_Witness ==
    \E id \in Ids :
        /\ HasUnknownField(reqs[id])
        /\ reqs[id].status = "responded"
        /\ Len(reqs[id].responses) = 1
        /\ reqs[id].responses[1].kind = "result"

\* C3: when the adapter call of a request fails, that request is answered with
\* one tool-execution error carrying the upstream message, and the server is
\* listening afterwards; the server leaves the listening state only without
\* answering any request (stream closure), never on an execution error.
C3_ExecutionErrorKeepsListening ==
    [][/\ \A id \in Ids :
            (reqs[id].status = "executing" /\ reqs'[id].status = "responded"
                /\ ~reqs'[id].reply.ok) =>
                /\ phase' = "listening"
                /\ reqs'[id].responses =
                      <<[kind |-> "execution_error", text |-> NoText,
                         message |-> reqs'[id].reply.error]>>
       /\ (phase = "listening" /\ phase' # "listening") => reqs' = reqs]_vars

\* A request read after an execution error was surfaced has succeeded.
C3_Witness ==
    \E i, j \in Ids :
        /\ i < j
        /\ reqs[i].tool = "get_github_repo_info"
        /\ Len(reqs[i].responses) = 1
        /\ reqs[i].responses[1].kind = "execution_error"
        /\ reqs[i].responses[1].message = "Not Found"
        /\ reqs[j].errorsBefore >= 1
        /\ Len(reqs[j].responses) = 1
        /\ reqs[j].responses[1].kind = "result"
        /\ phase = "listening"

\* C4: when one of the three credentials is unset at startup, the process
\* never reaches the listening state.
C4_MissingCredentialNeverListens ==
    (\E c \in Credentials : env[c] = Undefined) => phase # "listening"

ProjectedKeys == <<"name", "description", "stars", "language">>
SourceKey(k) == IF k = "stars" THEN "stargazers_count" ELSE k
Keys(obj) == [i \in 1..Len(obj) |-> obj[i][1]]

\* C5: every result of get_github_repo_info holds exactly the four fields
\* name, description, stars and language, whatever the upstream record holds.
C5_ExactlyFourFields ==
    \A id \in Ids : \A k \in 1..Len(reqs[id].responses) :
        (reqs[id].tool = "get_github_repo_info"
            /\ reqs[id].responses[k].kind = "result") =>
            Keys(reqs[id].responses[k].text.body) = ProjectedKeys

\* C6: when the upstream answers, getFileContent does not raise; it returns
\* null unless the answer is an object with a content field and encoding
\* "base64", and then it returns the text whose base64 encoding (followed by
\* the upstream's line break) is that content.
C6_NullUnlessBase64File ==
    (fileCall.called /\ fileCall.response.ok) =>
        LET d == fileCall.response.data
            isFile == /\ d.kind = "object"
                      /\ {"content", "encoding"} \subseteq DOMAIN d.props
                      /\ d.props.encoding = "base64"
        IN  /\ ~fileCall.raised
            /\ ~isFile => fileCall.result.isNull
            /\ isFile =>
                /\ ~fileCall.result.isNull
                /\ Base64Encode(fileCall.result.text) \o <<"\n">> = d.props.content

\* A path that resolves to a directory listing has been asked for.
C6_Witness ==
    /\ fileCall.called
    /\ fileCall.response.ok
    /\ fileCall.response.data.kind = "array"
    /\ fileCall.response.data.entries = 2
    /\ fileCall.result.isNull
    /\ ~fileCall.raised

\* C7: getEvents(n), n > 0, returns at most n events in non-decreasing start
\* order, the soonest from the time of the call on; it asks upstream for
\* maxResults n, singleEvents true, orderBy startTime and timeMin = now, and
\* returns the items as received.
C7_AtMostNSoonestAscending ==
    (calCall.called /\ ~calCall.raised /\ calCall.maxResults # Undefined) =>
        LET n == NumberValue(calCall.maxResults)
            items == calCall.items
            listed == {items[i].id : i \in 1..Len(items)}
        IN  /\ Len(items) <= n
            /\ \A i \in 1..Len(items) : \A j \in i..Len(items) :
                    calendar[items[i].id] <= calendar[items[j].id]
            /\ \A i \in 1..Len(items) :
                    /\ items[i].start = calendar[items[i].id]
                    /\ items[i].start >= calCall.at
            /\ Cardinality(listed) = Len(items)
            /\ \A e \in EventIds \ listed :
                    calendar[e] >= calCall.at =>
                        /\ Len(items) = n
                        /\ \A i \in 1..Len(items) : items[i].start <= calendar[e]
            /\ calCall.request.params =
                  [calendarId |-> "'primary'", timeMin |-> ToScalar(calCall.at),
                   maxResults |-> ToScalar(n), singleEvents |-> "true",
                   orderBy |-> "'startTime'"]
            /\ items = calCall.response.data

\* Two events asked for of three upcoming ones with distinct start times.
C7_Witness ==
    /\ calCall.called
    /\ ~calCall.raised
    /\ calCall.maxResults = "2"
    /\ calCall.at = 0
    /\ Cardinality({calendar[e] : e \in EventIds}) = 3
    /\ Len(calCall.items) = 2

IsArrayTool(tool) == tool \in {"get_calendar_events", "query_notion_pages"}

\* What the adapter call hands to the handler out of the upstream's answer.
Returned(tool, data) ==
    IF tool = "query_notion_pages" THEN Get(data, "results") ELSE data

\* The text is the serialization of all the data the adapter call returned
\* (for get_github_repo_info: of every projected field the record defines).
Complete(tool, text, data) ==
    IF IsArrayTool(tool)
    THEN /\ text.json = "array"
         /\ Len(text.body) = Len(Returned(tool, data))
         /\ \A i \in 1..Len(Returned(tool, data)) :
                text.body[i] = [json |-> "object", body |-> Returned(tool, data)[i]]
    ELSE /\ text.json = "object"
         /\ Range(Keys(text.body)) \subseteq Range(ProjectedKeys)
         /\ \A i \in 1..Len(ProjectedKeys) :
                Get(data, SourceKey(ProjectedKeys[i])) # Undefined =>
                    Get(text.body, ProjectedKeys[i]) =
                        Get(data, SourceKey(ProjectedKeys[i]))

\* C8: a request has no response until it is answered and exactly one from
\* then on; the response is either a result (the complete serialization of
\* what the adapter call returned, with no error in it) or one error (with no
\* result text in it).
C8_ExactlyOneResponse ==
    \A id \in Ids :
        LET r == reqs[id]
        IN  /\ Len(r.responses) <= 1
            /\ r.status = "responded" <=> Len(r.responses) = 1
            /\ \A k \in 1..Len(r.responses) :
                LET resp == r.responses[k]
                IN  \/ /\ resp.kind = "result"
                       /\ resp.message = ""
                       /\ r.reply.ok
                       /\ Complete(r.tool, resp.text, r.reply.data)
                    \/ /\ resp.kind = "execution_error"
                       /\ resp.text = NoText
                       /\ resp.message # ""
                       /\ r.reply # NoReply /\ ~r.reply.ok
                    \/ /\ resp.kind = "validation_error"
                       /\ resp.text = NoText
                       /\ resp.message # ""
                       /\ r.reply = NoReply

\* One request answered with a result, another with an execution error.
C8_Witness ==
    \E i, j \in Ids :
        /\ reqs[i].status = "responded"
        /\ reqs[i].responses[1].kind = "result"
        /\ reqs[i].tool = "query_notion_pages"
        /\ Len(Get(reqs[i].reply.data, "results")) = 1
        /\ reqs[j].status = "responded"
        /\ reqs[j].responses[1].kind = "execution_error"

MethodOf(tool) ==
    CASE tool = "get_calendar_events" -> "calendar.getEvents"
      [] tool = "query_notion_pages" -> "notion.queryDatabase"
      [] tool = "get_github_repo_info" -> "github.getRepository"

ApiOf(tool) ==
    CASE tool = "get_calendar_events" -> "calendar.events.list"
      [] tool = "query_notion_pages" -> "notion.databases.query"
      [] tool = "get_github_repo_info" -> "github.repos.get"

\* C9: a request that passed validation has caused exactly one adapter method
\* call (the one its tool is bound to) and exactly one upstream call, whether
\* the upstream call is pending, succeeded or failed and whatever other
\* requests were answered before; a request in validation or rejected has
\* caused none.  A failure is passed on with the upstream's message.
C9_OneUpstreamCallPerRequest ==
    \A id \in Ids :
        LET r == reqs[id]
        IN  /\ (r.status = "validating" \/ Rejected(r)) =>
                Len(r.calls) = 0 /\ Len(r.upstream) = 0
            /\ (r.status = "executing" \/ (r.status = "responded" /\ ~Rejected(r))) =>
                /\ Len(r.calls) = 1
                /\ r.calls[1].method = MethodOf(r.tool)
                /\ Len(r.upstream) = 1
                /\ r.upstream[1].api = ApiOf(r.tool)
            /\ (r.status = "responded" /\ ~Rejected(r) /\ ~r.reply.ok) =>
                /\ r.responses[1].kind = "execution_error"
                /\ r.responses[1].message = r.reply.error

\* Two identical requests, both answered with a result, one upstream call each.
C9_Witness ==
    /\ Len(reqs) >= 2
    /\ reqs[1].tool = reqs[2].tool
    /\ reqs[1].args = reqs[2].args
    /\ \A id \in 1..2 :
        /\ reqs[id].status = "responded"
        /\ reqs[id].reply.ok
        /\ Len(reqs[id].upstream) = 1
    /\ reqs[1].upstream = reqs[2].upstream

\* C10 as stated: at most one request is in flight (read and not yet
\* answered) in any reachable state.
C10_AtMostOneInFlight ==
    Cardinality({id \in Ids : reqs[id].status # "responded"}) <= 1

\* C10 amended: each request is read while the server listens, starts in
\* validation, and moves validating -> executing -> responded, or validating ->
\* responded when validation rejects it, never otherwise; requests are
\* handled only while the server listens.  Requests are not held back while
\* another request's handler is suspended.
C10_PerRequestOrder ==
    [][/\ Len(reqs') >= Len(reqs)
       /\ \A id \in Ids :
            \/ reqs'[id].status = reqs[id].status
            \/ /\ reqs[id].status = "validating"
               /\ reqs'[id].status = "executing"
            \/ /\ reqs[id].status = "validating"
               /\ Rejected(reqs'[id])
            \/ /\ reqs[id].status = "executing"
               /\ reqs'[id].status = "responded"
               /\ ~Rejected(reqs'[id])
       /\ \A id \in (Len(reqs) + 1)..Len(reqs') : reqs'[id].status = "validating"
       /\ reqs' # reqs => phase = "listening"]_vars

\* Two requests suspended on their upstream calls at once.
C10_Witness ==
    /\ Len(reqs) >= 2
    /\ reqs[1].status = "executing"
    /\ reqs[2].status = "executing"
    /\ phase = "listening"

EmptyArrayText == [json |-> "array", body |-> <<>>]

\* C11: a query_notion_pages request that passed validation has called
\* queryDatabase with one argument, the databaseId it was given, and nothing
\* else.  When the upstream query succeeds, the response is a result whose
\* text is the serialized results sequence of that one upstream response,
\* element for element, whether or not the upstream says more pages follow:
\* for zero pages it is the serialized empty sequence, not an error.
C11_EmptyResultsNotAnError ==
    \A id \in Ids :
        LET r == reqs[id]
        IN  (r.tool = "query_notion_pages" /\ r.status # "validating" /\ ~Rejected(r)) =>
                /\ r.calls = <<[method |-> "notion.queryDatabase",
                                args |-> <<r.args["databaseId"]>>]>>
                /\ r.upstream[1].params["database_id"] = r.args["databaseId"]
                /\ (r.status = "responded" /\ r.reply.ok) =>
                    LET results == Get(r.reply.data, "results")
                        resp == r.responses[1]
                    IN  /\ Len(r.responses) = 1
                        /\ resp.kind = "result"
                        /\ resp.message = ""
                        /\ resp.text.json = "array"
                        /\ Len(resp.text.body) = Len(results)
                        /\ \A i \in 1..Len(results) :
                                resp.text.body[i] = [json |-> "object", body |-> results[i]]
                        /\ results = <<>> => resp.text = EmptyArrayText

\* A query answered with zero pages got the empty sequence as its result, and
\* another answered with a first page of several got that page's results.
C11_Witness ==
    \E i, j \in Ids :
        /\ reqs[i].tool = "query_notion_pages"
        /\ reqs[i].status = "responded"
        /\ reqs[i].reply.ok
        /\ Get(reqs[i].reply.data, "results") = <<>>
        /\ reqs[i].responses[1].kind = "result"
        /\ reqs[i].responses[1].text = EmptyArrayText
        /\ reqs[j].tool = "query_notion_pages"
        /\ reqs[j].status = "responded"
        /\ reqs[j].reply.ok
        /\ Get(reqs[j].reply.data, "has_more") = "true"
        /\ Len(reqs[j].responses[1].text.body) = 1

\* C12: a get_calendar_events request sent without maxResults is not rejected:
\* validation gives the handler maxResults = 10, the handler passes 10 to
\* getEvents and the upstream list request carries maxResults = 10.  When
\* the request carries a number, that number is what validation yields, what
\* the handler passes and what the upstream list request carries.
C12_MaxResultsForwarded ==
    \A id \in Ids :
        LET r == reqs[id]
            given == "maxResults" \in DOMAIN r.args
            expected == IF given THEN r.args["maxResults"] ELSE "10"
        IN  r.tool = "get_calendar_events" =>
                /\ ~given => ~Rejected(r)
                /\ (r.status # "validating" /\ ~Rejected(r)) =>
                    /\ r.parsed["maxResults"] = expected
                    /\ r.calls = <<[method |-> "calendar.getEvents",
                                    args |-> <<expected>>]>>
                    /\ Len(r.upstream) = 1
                    /\ r.upstream[1].api = "calendar.events.list"
                    /\ r.upstream[1].params["maxResults"] = expected

\* One request without maxResults went upstream with 10, another with
\* maxResults = 0 went upstream with 0.
C12_Witness ==
    \E i, j \in Ids :
        /\ reqs[i].tool = "get_calendar_events"
        /\ "maxResults" \notin DOMAIN reqs[i].args
        /\ Len(reqs[i].upstream) = 1
        /\ reqs[i].upstream[1].params["maxResults"] = "10"
        /\ reqs[j].tool = "get_calendar_events"
        /\ "maxResults" \in DOMAIN reqs[j].args
        /\ reqs[j].args["maxResults"] = "0"
        /\ Len(reqs[j].upstream) = 1
        /\ reqs[j].upstream[1].params["maxResults"] = "0"

====
